---- MODULE Spec2Model ----
(***************************************************************************)
(* Model of the video processing service                                   *)
(* (video-processing-service/src/index.ts): the /transcode handler, the    *)
(* transcodeVideo promise with its timeout machinery, validateVideo and    *)
(* sanitizeVideoId, together with the collaborators the handler drives     *)
(* (scratch directory, blob store, status ledger, ffmpeg processes).       *)
(*                                                                         *)
(* Strings are sequences of one-character strings, so that the regular     *)
(* expressions of sanitizeVideoId can be computed as the code computes     *)
(* them.                                                                   *)
(***************************************************************************)
EXTENDS Integers, Sequences, FiniteSets, TLC

(***************************************************************************)
(* Bounds of the model.                                                    *)
(***************************************************************************)
\* number of /transcode requests the service receives in a behaviour
NumReq == 2
\* largest value of the wall clock read by Date.now()
MaxClock == 1
\* most unlinkSync calls of one cleanup() that throw
MaxUnlinkFailures == 1
\* longest free tail of an input of sanitizeVideoId (after the padding)
MaxTail == 3

(***************************************************************************)
(* Configuration constants (index.ts lines 9-16).                          *)
(***************************************************************************)
\* sanitized.slice(0, 100)
MaxIdLength == 100

(***************************************************************************)
(* Characters.                                                             *)
(***************************************************************************)
LowerSeq == << "a", "b", "c", "d", "e", "f", "g", "h", "i", "j", "k", "l", "m",
               "n", "o", "p", "q", "r", "s", "t", "u", "v", "w", "x", "y", "z" >>
UpperSeq == << "A", "B", "C", "D", "E", "F", "G", "H", "I", "J", "K", "L", "M",
               "N", "O", "P", "Q", "R", "S", "T", "U", "V", "W", "X", "Y", "Z" >>
LowerChars == {LowerSeq[i] : i \in 1..26}
UpperChars == {UpperSeq[i] : i \in 1..26}
DigitChars == {"0", "1", "2", "3", "4", "5", "6", "7", "8", "9"}
Hyphen == "-"

\* the character class [a-zA-Z0-9]
IsAlnum(c) == c \in LowerChars \cup UpperChars \cup DigitChars

\* String.prototype.toLowerCase on one character
LowerOf(c) ==
  IF c \in UpperChars THEN LowerSeq[CHOOSE i \in 1..26 : UpperSeq[i] = c] ELSE c

Min(a, b) == IF a < b THEN a ELSE b

\* s.slice(0, n)
Slice(s, n) == SubSeq(s, 1, Min(Len(s), n))

\* the string of n copies of c
Repeat(c, n) == [i \in 1..n |-> c]

\* decimal digits of a natural number, as `${n}` prints it
RECURSIVE Decimal(_)
Decimal(n) ==
  LET d == <<"0", "1", "2", "3", "4", "5", "6", "7", "8", "9">>[(n % 10) + 1]
  IN  IF n < 10 THEN <<d>> ELSE Decimal(n \div 10) \o <<d>>

(***************************************************************************)
(* sanitizeVideoId (index.ts lines 165-183).                               *)
(***************************************************************************)
\* videoId.replace(/\.[^/.]+$/, ""): the match starts at a dot that is
\* followed, up to the end of the string, by one or more characters none of
\* which is a slash or a dot.
ExtensionStart(s) ==
  {i \in 1..Len(s) : /\ s[i] = "."
                     /\ i < Len(s)
                     /\ \A j \in (i + 1)..Len(s) : s[j] \notin {"/", "."}}

StripExtension(s) ==
  IF ExtensionStart(s) = {} THEN s
  ELSE SubSeq(s, 1, (CHOOSE i \in ExtensionStart(s) :
                       \A k \in ExtensionStart(s) : i <= k) - 1)

\* .replace(/[^a-zA-Z0-9]/g, "-")
ReplaceSpecial(s) == [i \in 1..Len(s) |-> IF IsAlnum(s[i]) THEN s[i] ELSE Hyphen]

\* .replace(/-+/g, "-"): of every run of hyphens the first one is kept
NotRepeatedHyphen(p) == ~(p[1] = Hyphen /\ p[2] = Hyphen)

CollapseHyphens(s) ==
  LET tagged == [i \in 1..Len(s) |-> <<s[i], IF i > 1 THEN s[i - 1] ELSE "">>]
      kept == SelectSeq(tagged, NotRepeatedHyphen)
  IN  [i \in 1..Len(kept) |-> kept[i][1]]

\* .replace(/^-+|-+$/g, ""): what lies between the first and the last
\* character that is no hyphen
NonHyphenAt(s) == {i \in 1..Len(s) : s[i] # Hyphen}

TrimHyphens(s) ==
  IF NonHyphenAt(s) = {} THEN <<>>
  ELSE SubSeq(s, CHOOSE i \in NonHyphenAt(s) : \A k \in NonHyphenAt(s) : i <= k,
                 CHOOSE i \in NonHyphenAt(s) : \A k \in NonHyphenAt(s) : i >= k)

\* .toLowerCase()
ToLowerCase(s) == [i \in 1..Len(s) |-> LowerOf(s[i])]

\* `video-${Date.now()}`
FallbackId(t) == <<"v", "i", "d", "e", "o", "-">> \o Decimal(t)

\* sanitized.slice(0, 100)
TruncateId(s) == Slice(s, MaxIdLength)

Sanitized(videoId) ==
  ToLowerCase(TrimHyphens(CollapseHyphens(ReplaceSpecial(StripExtension(videoId)))))

\* t is the value Date.now() returns during the call
sanitizeVideoId(videoId, t) ==
  IF Sanitized(videoId) = <<>> THEN FallbackId(t)
  ELSE TruncateId(Sanitized(videoId))

(***************************************************************************)
(* Text helpers used by the handler and by validateVideo.                  *)
(***************************************************************************)
\* indexes at which the separator "/" occurs
SlashAt(s) == {i \in 1..Len(s) : s[i] = "/"}

FirstSlash(s) == CHOOSE i \in SlashAt(s) : \A k \in SlashAt(s) : i <= k

\* name.split('/')[0] and the text after the first slash
BeforeSlash(s) == IF SlashAt(s) = {} THEN s ELSE SubSeq(s, 1, FirstSlash(s) - 1)
AfterSlash(s) == SubSeq(s, FirstSlash(s) + 1, Len(s))

\* index.ts lines 260-261:
\*   const pathParts = name.split('/');
\*   const videoId = pathParts.length > 1 ? pathParts[1] : name;
ExtractVideoId(name) ==
  IF SlashAt(name) = {} THEN name ELSE BeforeSlash(AfterSlash(name))

\* String.prototype.includes
Includes(s, sub) ==
  \E i \in 0..(Len(s) - Len(sub)) : SubSeq(s, i + 1, i + Len(sub)) = sub

(***************************************************************************)
(* Configuration (index.ts lines 10-16).                                   *)
(***************************************************************************)
BUCKET_NAME == "raot-tube-videos-processed"

SUPPORTED_FORMATS ==
  { <<"m", "p", "4">>, <<"m", "o", "v">>, <<"a", "v", "i">>, <<"m", "k", "v">> }

\* Object.entries(VIDEO_QUALITIES), in insertion order
QualitiesReversed == <<"720p", "360p">>

Qualities == <<"360p", "720p">>
QualitySet == {Qualities[i] : i \in 1..Len(Qualities)}

\* VIDEO_QUALITIES[q].height
QualityHeight(q) == IF q = "360p" THEN 360 ELSE 720

(***************************************************************************)
(* Requests.  A request body is the pair of the two fields the handler     *)
(* reads: body.message.data after base64 decoding and JSON.parse           *)
(* ("unparsable" when JSON.parse throws) and body.data, together with the  *)
(* top-level bucket and name of a flat body, which the handler never       *)
(* reads.                                                                  *)
(***************************************************************************)
Req == 1..NumReq

RawBucket == "raot-tube-videos"

\* object names: "u/a.m", "u/A.m", "!"
NameLower == <<"u", "/", "a", ".", "m">>
NameUpper == <<"u", "/", "A", ".", "m">>
NameBang == <<"!">>
ObjectNames == {NameLower, NameUpper, NameBang}

\* An absent field and an empty string are both falsy; both are modelled by
\* the empty string ("" for a bucket, <<>> for an object name).

\* body.message.data, decoded and parsed
Payload(b, n, bid, oid) ==
  [present |-> TRUE, parsable |-> TRUE,
   bucket |-> b, name |-> n, bucketId |-> bid, objectId |-> oid]
NoMessage ==
  [present |-> FALSE, parsable |-> FALSE,
   bucket |-> "", name |-> <<>>, bucketId |-> "", objectId |-> <<>>]
Unparsable == [NoMessage EXCEPT !.present = TRUE]

\* body.data
DataField(b, n) == [present |-> TRUE, bucket |-> b, name |-> n]
NoData == [present |-> FALSE, bucket |-> "", name |-> <<>>]

\* req.body
Body(msg, dat, b, n) == [message |-> msg, data |-> dat, bucket |-> b, name |-> n]

Envelope(n) == Body(Payload(RawBucket, n, "", <<>>), NoData, "", <<>>)
LegacyEnvelope(n) == Body(Payload("", <<>>, RawBucket, n), NoData, "", <<>>)
Direct(n) == Body(NoMessage, DataField(RawBucket, n), "", <<>>)
Flat(n) == Body(NoMessage, NoData, RawBucket, n)

Bodies ==
  {Envelope(n) : n \in ObjectNames}
    \cup {LegacyEnvelope(NameLower), Direct(NameLower), Flat(NameLower)}
    \cup { Body(NoMessage, NoData, "", <<>>),
           Body(Unparsable, NoData, "", <<>>),
           Body(Payload(RawBucket, <<>>, "", <<>>), NoData, "", <<>>),
           Body(Payload(RawBucket, NameUpper, "", <<>>),
                DataField(RawBucket, NameLower), "", <<>>) }

\* a || b, for buckets and for names
OrElseBucket(a, b) == IF a # "" THEN a ELSE b
OrElseName(a, b) == IF a # <<>> THEN a ELSE b

NoEvent == [error |-> "", bucket |-> "", name |-> <<>>]

\* index.ts lines 219-257: the storage event, or the error thrown
ParseEvent(body) ==
  LET ev ==
        IF body.message.present
        THEN IF ~body.message.parsable
             THEN [NoEvent EXCEPT !.error = "Unexpected token in JSON"]
             ELSE [NoEvent EXCEPT
                     !.bucket = OrElseBucket(body.message.bucket, body.message.bucketId),
                     !.name = OrElseName(body.message.name, body.message.objectId)]
        ELSE IF body.data.present
        THEN [NoEvent EXCEPT !.bucket = body.data.bucket, !.name = body.data.name]
        ELSE [NoEvent EXCEPT !.error = "Invalid event format"]
  IN  IF ev.error # "" THEN ev
      ELSE IF ev.bucket = "" \/ ev.name = <<>>
      THEN [NoEvent EXCEPT !.error = "Missing required fields in message data"]
      ELSE ev

(***************************************************************************)
(* validateVideo (index.ts lines 134-162).  A probe is what ffprobe hands  *)
(* to the callback: an error, or the format name and the first video       *)
(* stream (if any) with its height (absent, or a number).                  *)
(***************************************************************************)
\* "mov,mp4,m4a,3gp,3g2,mj2" and "matroska,webm", as ffprobe names them
FormatMp4 == << "m", "o", "v", ",", "m", "p", "4", ",", "m", "4", "a", ",",
                "3", "g", "p", ",", "3", "g", "2", ",", "m", "j", "2" >>
FormatWebm == << "m", "a", "t", "r", "o", "s", "k", "a", ",", "w", "e", "b", "m" >>

\* heights a video stream reports; 0 is what ffprobe prints for a stream of
\* unspecified size
Heights == {0, 240, 360, 720}
OptHeights == {<<>>} \cup {<<h>> : h \in Heights}

Probe(e, f, v, h) == [err |-> e, format |-> f, hasVideo |-> v, height |-> h]

Probes ==
  { Probe(TRUE, <<>>, FALSE, <<>>),
    Probe(FALSE, <<>>, TRUE, <<360>>),
    Probe(FALSE, FormatWebm, TRUE, <<360>>),
    Probe(FALSE, FormatMp4, FALSE, <<>>) }
    \cup {Probe(FALSE, FormatMp4, TRUE, h) : h \in OptHeights}

NoMetadata == [format |-> <<>>, height |-> <<>>]

\* SUPPORTED_FORMATS.some(supported => format.includes(supported))
Supported(format) == \E f \in SUPPORTED_FORMATS : Includes(format, f)

\* the error validateVideo rejects with ("" when it resolves) and the
\* metadata it resolves with
validateVideo(probe) ==
  IF probe.err
  THEN [error |-> "Failed to probe video file", metadata |-> NoMetadata]
  ELSE IF ~Supported(ToLowerCase(probe.format))
  THEN [error |-> "Unsupported video format", metadata |-> NoMetadata]
  ELSE IF ~probe.hasVideo
  THEN [error |-> "No video stream found", metadata |-> NoMetadata]
  ELSE [error |-> "",
        metadata |-> [format |-> ToLowerCase(probe.format),
                      height |-> probe.height]]

(***************************************************************************)
(* The quality loop's skip test (index.ts line 296):                       *)
(*   metadata.height && metadata.height < settings.height                  *)
(* An absent height and a height of 0 are both falsy.                      *)
(***************************************************************************)
SkipQualityWrong(meta, q) ==
  meta.height # <<>> /\ meta.height[1] # 0 /\ meta.height[1] <= QualityHeight(q)

SkipQuality(meta, q) ==
  meta.height # <<>> /\ meta.height[1] # 0 /\ meta.height[1] < QualityHeight(q)

(***************************************************************************)
(* Files, objects and ledger rows.                                         *)
(***************************************************************************)
\* path.join('/tmp', `${videoId}_input.mp4`)
TempInputFile(videoId) == [dir |-> "/tmp", id |-> videoId, suffix |-> "_input.mp4"]

\* path.join('/tmp', `${videoId}_${quality}.mp4`)
TempOutputFile(videoId, q) == [dir |-> "/tmp", id |-> videoId, suffix |-> q]

\* `processed/${data.videoId}/${quality}.mp4`
Destination(videoId, q) == [prefix |-> "processed", id |-> videoId, file |-> q]

\* a locator that names the object of the last quality, whatever was
\* uploaded
LocatorWrong(videoId, q) ==
  [bucket |-> BUCKET_NAME, key |-> Destination(videoId, Qualities[Len(Qualities)])]

\* `gs://${BUCKET_NAME}/${destination}`
Locator(videoId, q) == [bucket |-> BUCKET_NAME, key |-> Destination(videoId, q)]

NoFile == [dir |-> "", id |-> <<>>, suffix |-> ""]

\* a row of the videos table
Row(id, st, meta, pv) ==
  [id |-> id, status |-> st, metadata |-> meta, processed_videos |-> pv]

(***************************************************************************)
(* State.                                                                  *)
(***************************************************************************)
VARIABLES
  \* per request: the handler's position and locals (index.ts lines 191-200)
  pc,              \* the await the handler is suspended at
  data,            \* the ProcessingJob, once built
  sanitizedId,     \* "" until sanitizeVideoId has run
  tempFiles,       \* the registered temporary files, in push order
  metadata,        \* <<>> or <<metadata>> once validateVideo has resolved
  qi,              \* index of the quality the loop is at
  processedFiles,  \* the quality -> locator map, as a set of entries
  error,           \* "" or the error the catch block caught
  response,        \* status 0 until the response is sent
  \* per request and quality: one transcodeVideo call
  proc,            \* the ffmpeg process
  promise,         \* the promise transcodeVideo returned
  timer,           \* the PROCESSING_TIMEOUT timer
  killTimer,       \* the 5 s timer that sends SIGKILL
  signals,         \* the signals delivered to the process, in order
  outputPath,      \* the file the process writes
  \* shared
  now,             \* the wall clock, as Date.now() reads it
  scratch,         \* the files that exist under /tmp
  objects,         \* the objects of the processed bucket
  ledger,          \* the rows of the videos table
  \* history
  trace,           \* per request: the collaborator calls that completed
  unlinkFailed,    \* per request: the files whose unlinkSync threw
  \* the identity function applied on its own
  sInput, sOnce, sTwice, sStage,
  sAgain,          \* the result of a later call on the same input
  \* the event parsing applied on its own
  pBody, pEvent, pStage

handlerVars ==
  << pc, data, sanitizedId, tempFiles, metadata, qi, processedFiles, error,
     response, trace, unlinkFailed >>
transcodeVars == << proc, promise, timer, killTimer, signals, outputPath >>
sharedVars == << now, scratch, objects, ledger >>
sanitizeVars == << sInput, sOnce, sTwice, sStage, sAgain >>
parseVars == << pBody, pEvent, pStage >>
vars == << handlerVars, transcodeVars, sharedVars, sanitizeVars, parseVars >>

NoJob == [videoId |-> <<>>, bucket |-> "", name |-> <<>>]
NoResponse == [status |-> 0, message |-> ""]

Event(op, q, res) == [op |-> op, quality |-> q, result |-> res]

HandlerInit ==
  /\ pc = [r \in Req |-> "idle"]
  /\ data = [r \in Req |-> NoJob]
  /\ sanitizedId = [r \in Req |-> <<>>]
  /\ tempFiles = [r \in Req |-> <<>>]
  /\ metadata = [r \in Req |-> <<>>]
  /\ qi = [r \in Req |-> 0]
  /\ processedFiles = [r \in Req |-> {}]
  /\ error = [r \in Req |-> ""]
  /\ response = [r \in Req |-> NoResponse]
  /\ trace = [r \in Req |-> <<>>]
  /\ unlinkFailed = [r \in Req |-> {}]
  /\ proc = [r \in Req |-> [q \in QualitySet |-> "none"]]
  /\ promise = [r \in Req |-> [q \in QualitySet |-> "none"]]
  /\ timer = [r \in Req |-> [q \in QualitySet |-> "none"]]
  /\ killTimer = [r \in Req |-> [q \in QualitySet |-> "none"]]
  /\ signals = [r \in Req |-> [q \in QualitySet |-> <<>>]]
  /\ outputPath = [r \in Req |-> [q \in QualitySet |-> NoFile]]
  /\ now = 0
  /\ scratch = {}
  /\ objects = {}
  /\ ledger = {}

SanitizeIdle ==
  /\ sInput = <<>>
  /\ sOnce = <<>>
  /\ sTwice = <<>>
  /\ sAgain = <<>>
  /\ sStage = "off"

ParseIdle ==
  /\ pBody = Body(NoMessage, NoData, "", <<>>)
  /\ pEvent = NoEvent
  /\ pStage = "off"

Init == HandlerInit /\ SanitizeIdle /\ ParseIdle

(***************************************************************************)
(* Collaborators.                                                          *)
(***************************************************************************)
Range(f) == {f[i] : i \in DOMAIN f}

\* supabase.from('videos').upsert(row, {onConflict: 'id'}), accepted
Upsert(rows, row) == {x \in rows : x.id # row.id} \cup {row}

\* supabase.from('videos').insert(row), accepted: the row is added to the
\* table.  The model does not fix the schema of the table; a store that
\* rejects the row (a duplicate id for instance) answers with an error
\* instead.
Insert(rows, row) == rows \cup {row}

\* supabase.from('videos').update({status}).eq('id', id), accepted: every
\* row the filter matches is updated, which may be none
UpdateStatus(rows, id, st) ==
  {IF x.id = id THEN [x EXCEPT !.status = st] ELSE x : x \in rows}

Replies == {"ok", "error"}

(***************************************************************************)
(* cleanup (index.ts lines 202-213) followed by the response.  failing is  *)
(* the set of registered files, present under /tmp, whose unlinkSync       *)
(* throws; the error is caught and logged per file.                        *)
(***************************************************************************)
\* a cleanup that gives up at the first deletion that throws: only the
\* files registered before it are deleted
cleanupWrong(files, scr, failing) ==
  scr \ {files[k] : k \in {i \in DOMAIN files : \A j \in 1..i : files[j] \notin failing}}

cleanup(files, scr, failing) == scr \ (Range(files) \ failing)

Deletable(r, scr) ==
  {F \in SUBSET (Range(tempFiles[r]) \cap scr) : Cardinality(F) <= MaxUnlinkFailures}

\* lines 369 and 395: the message of the response is the success message
\* or the message of the error the catch block caught, whatever the reply
\* to the update of the status ("none": no update was sent) and whatever
\* deletions failed
ResponseMessageMasked(primary, reply, failing) ==
  IF reply = "error" THEN "Failed to update video status" ELSE primary

ResponseMessageEscalated(primary, reply, failing) ==
  IF failing # {} THEN "Failed to delete temp file" ELSE primary

ResponseMessage(primary, reply, failing) == primary

\* a handler that returns without sending the response
RespondWrong(r, status, msg) ==
  /\ response' = response
  /\ pc' = [pc EXCEPT ![r] = "done"]

Respond(r, status, msg) ==
  /\ response' = [response EXCEPT ![r] = [status |-> status, message |-> msg]]
  /\ pc' = [pc EXCEPT ![r] = "done"]

\* line 395: the status of the response to a failed invocation, whatever
\* the error caught
FailureStatus(msg) == 500

\* lines 355 and 379: `if (sanitizedId)`, the empty string being falsy
HasIdentityWrong(id) == TRUE

HasIdentity(id) == id # <<>>

\* an error that is swallowed: the handler goes on to the commit
CaughtWrong(r, msg, scr, tr) ==
  /\ error' = [error EXCEPT ![r] = msg]
  /\ pc' = [pc EXCEPT ![r] = "upsert"]
  /\ scratch' = scr
  /\ trace' = [trace EXCEPT ![r] = tr]
  /\ UNCHANGED << response, unlinkFailed >>

\* index.ts lines 371-396, up to the first await: the catch block
Caught(r, msg, scr, tr) ==
  /\ error' = [error EXCEPT ![r] = msg]
  /\ IF HasIdentity(sanitizedId[r])
     THEN /\ pc' = [pc EXCEPT ![r] = "fail_update"]
          /\ scratch' = scr
          /\ trace' = [trace EXCEPT ![r] = tr]
          /\ UNCHANGED << response, unlinkFailed >>
     ELSE \E failing \in Deletable(r, scr) :
            /\ scratch' = cleanup(tempFiles[r], scr, failing)
            /\ unlinkFailed' = [unlinkFailed EXCEPT ![r] = failing]
            /\ trace' = [trace EXCEPT ![r] = Append(tr, Event("cleanup", "", "ok"))]
            /\ Respond(r, FailureStatus(msg), ResponseMessage(msg, "none", failing))

(***************************************************************************)
(* The quality loop (index.ts lines 291-308), from quality index i up to   *)
(* its next await: the transcode of the first quality that is not skipped, *)
(* or, past the last quality, the upsert of the completed record.          *)
(***************************************************************************)
NextQualityWrong(i, meta) ==
  LET todo == {j \in i..Len(Qualities) : j = 1 /\ ~SkipQuality(meta, Qualities[j])}
  IN  IF todo = {} THEN Len(Qualities) + 1
      ELSE CHOOSE j \in todo : \A k \in todo : j <= k

NextQuality(i, meta) ==
  LET todo == {j \in i..Len(Qualities) : ~SkipQuality(meta, Qualities[j])}
  IN  IF todo = {} THEN Len(Qualities) + 1
      ELSE CHOOSE j \in todo : \A k \in todo : j <= k

AdvanceLoop(r, i, meta) ==
  LET j == NextQuality(i, meta)
      last == Min(j, Len(Qualities))
      pushed == [k \in 1..(last - i + 1) |->
                   TempOutputFile(data[r].videoId, Qualities[i + k - 1])]
  IN  /\ tempFiles' = [tempFiles EXCEPT ![r] = @ \o pushed]
      /\ qi' = [qi EXCEPT ![r] = j]
      /\ IF j <= Len(Qualities)
         THEN \* transcodeVideo (lines 94-129): the process is started and
              \* the timeout timer armed
              /\ pc' = [pc EXCEPT ![r] = "transcode"]
              /\ proc' = [proc EXCEPT ![r][Qualities[j]] = "running"]
              /\ promise' = [promise EXCEPT ![r][Qualities[j]] = "pending"]
              /\ timer' = [timer EXCEPT ![r][Qualities[j]] = "armed"]
              /\ outputPath' = [outputPath EXCEPT ![r][Qualities[j]] =
                                  TempOutputFile(data[r].videoId, Qualities[j])]
         ELSE /\ pc' = [pc EXCEPT ![r] = "upsert"]
              /\ UNCHANGED << proc, promise, timer, outputPath >>

(***************************************************************************)
(* The /transcode handler (index.ts lines 191-397), one action per await.  *)
(***************************************************************************)
\* The values Date.now() may return during sanitizeVideoId(videoId): the
\* clock is read on the fallback path only (line 178) and never runs
\* backwards
DateNow(videoId) ==
  IF Sanitized(videoId) = <<>> THEN now..MaxClock ELSE {now}

\* lines 191-283: the request arrives; the event is parsed, the job built,
\* the identity derived and the download started
Receive(r, b) ==
  /\ pc[r] = "idle"
  /\ LET ev == ParseEvent(b) IN
       IF ev.error # ""
       THEN /\ Caught(r, ev.error, scratch, trace[r])
            /\ UNCHANGED << data, sanitizedId, tempFiles, now >>
       ELSE \E t \in DateNow(ExtractVideoId(ev.name)) :
              LET videoId == ExtractVideoId(ev.name) IN
                /\ now' = t
                /\ data' = [data EXCEPT ![r] =
                              [videoId |-> videoId, bucket |-> ev.bucket,
                               name |-> ev.name]]
                /\ sanitizedId' = [sanitizedId EXCEPT ![r] =
                                     sanitizeVideoId(videoId, t)]
                /\ tempFiles' = [tempFiles EXCEPT ![r] =
                                   <<TempInputFile(videoId)>>]
                /\ pc' = [pc EXCEPT ![r] = "download"]
                /\ UNCHANGED << error, response, trace, unlinkFailed, scratch >>
  /\ UNCHANGED << metadata, qi, processedFiles, transcodeVars, objects, ledger,
                  sanitizeVars, parseVars >>

\* line 283 settles.  A failed download may leave a partial file behind.
DownloadDone(r, ok, partial) ==
  /\ pc[r] = "download"
  /\ LET file == TempInputFile(data[r].videoId) IN
       IF ok
       THEN /\ scratch' = scratch \cup {file}
            /\ trace' = [trace EXCEPT ![r] = Append(@, Event("download", "", "ok"))]
            /\ pc' = [pc EXCEPT ![r] = "validate"]
            /\ UNCHANGED << error, response, unlinkFailed >>
       ELSE Caught(r, "download failed",
                   IF partial THEN scratch \cup {file} ELSE scratch,
                   Append(trace[r], Event("download", "", "error")))
  /\ UNCHANGED << data, sanitizedId, tempFiles, metadata, qi, processedFiles,
                  transcodeVars, now, objects, ledger, sanitizeVars, parseVars >>

\* line 286 settles; on success the quality loop runs up to its first await
ValidateDone(r, probe) ==
  /\ pc[r] = "validate"
  /\ TempInputFile(data[r].videoId) \in scratch \/ probe.err
  /\ LET v == validateVideo(probe) IN
       IF v.error # ""
       THEN /\ Caught(r, v.error, scratch,
                      Append(trace[r], Event("ffprobe", "", "error")))
            /\ UNCHANGED << metadata, tempFiles, qi, proc, promise, timer,
                            outputPath >>
       ELSE /\ metadata' = [metadata EXCEPT ![r] = <<v.metadata>>]
            /\ trace' = [trace EXCEPT ![r] = Append(@, Event("ffprobe", "", "ok"))]
            /\ AdvanceLoop(r, 1, v.metadata)
            /\ UNCHANGED << error, response, unlinkFailed, scratch >>
  /\ UNCHANGED << data, sanitizedId, processedFiles, killTimer, signals, now,
                  objects, ledger, sanitizeVars, parseVars >>

(***************************************************************************)
(* transcodeVideo (index.ts lines 89-131): the events of one call.  A      *)
(* promise continuation runs before any other event, so the event that     *)
(* settles the promise also resumes the handler awaiting it (line 301).    *)
(* command.kill delivers its signal only to a process that still runs.     *)
(***************************************************************************)
\* the messages of the errors transcodeVideo rejects with
ErrTranscode == "ffmpeg exited with an error"
ErrTimeout == "FFmpeg process timed out"

\* line 123: the signal the timeout callback sends
TimeoutSignalWrong == "SIGKILL"

TimeoutSignal == "SIGTERM"

\* line 124: the signal sent once the grace period is over
GraceSignalWrong == "SIGTERM"

GraceSignal == "SIGKILL"

\* SIGKILL cannot be caught or ignored: it ends the process it reaches.  A
\* process may handle SIGTERM and go on running.
Ends(sig) == sig = "SIGKILL"

Deliver(r, q, sig) ==
  IF proc[r][q] = "running"
  THEN [signals EXCEPT ![r][q] = Append(@, sig)]
  ELSE signals

\* the process writes (creates) its output file while it runs
ProcWrite(r, q) ==
  /\ proc[r][q] = "running"
  /\ outputPath[r][q] \notin scratch
  /\ scratch' = scratch \cup {outputPath[r][q]}
  /\ UNCHANGED << handlerVars, transcodeVars, now, objects, ledger, sanitizeVars, parseVars >>

\* 'end' (lines 111-115 and 129): the process has finished its output;
\* kill('SIGTERM') reaches no process, resolve(), clearTimeout(timeout)
ProcEnd(r, q) ==
  /\ proc[r][q] = "running"
  /\ proc' = [proc EXCEPT ![r][q] = "exited"]
  /\ signals' = signals
  /\ timer' = [timer EXCEPT ![r][q] = IF @ = "armed" THEN "cleared" ELSE @]
  /\ IF promise[r][q] = "pending"
     THEN /\ promise' = [promise EXCEPT ![r][q] = "resolved"]
          /\ pc' = [pc EXCEPT ![r] = "upload"]
          /\ trace' = [trace EXCEPT ![r] = Append(@, Event("transcode", q, "ok"))]
     ELSE UNCHANGED << promise, pc, trace >>
  /\ scratch' = scratch \cup {outputPath[r][q]}
  /\ UNCHANGED << data, sanitizedId, tempFiles, metadata, qi, processedFiles,
                  error, response, unlinkFailed, killTimer, outputPath, now,
                  objects, ledger, sanitizeVars, parseVars >>

\* 'error' (lines 116-120): the process has exited abnormally (or was
\* killed); kill('SIGKILL') reaches no process, reject(err).  The timeout
\* timer is left as it is.
ProcError(r, q) ==
  /\ proc[r][q] = "running"
  /\ proc' = [proc EXCEPT ![r][q] = "exited"]
  /\ IF promise[r][q] = "pending"
     THEN /\ promise' = [promise EXCEPT ![r][q] = "rejected"]
          /\ Caught(r, ErrTranscode, scratch,
                    Append(trace[r], Event("transcode", q, "error")))
     ELSE UNCHANGED << promise, pc, trace, error, response, unlinkFailed, scratch >>
  /\ UNCHANGED << data, sanitizedId, tempFiles, metadata, qi, processedFiles,
                  timer, killTimer, signals, outputPath, now, objects, ledger,
                  sanitizeVars, parseVars >>

\* a timeout callback that kills the process and leaves the promise to the
\* events of the process
TimerFireWrong(r, q) ==
  /\ timer[r][q] = "armed"
  /\ timer' = [timer EXCEPT ![r][q] = "fired"]
  /\ signals' = Deliver(r, q, TimeoutSignal)
  /\ killTimer' = [killTimer EXCEPT ![r][q] = "armed"]
  /\ UNCHANGED << handlerVars, promise, proc, outputPath, sharedVars,
                  sanitizeVars, parseVars >>

\* the timeout callback (lines 122-126): kill('SIGTERM'), arm the 5 s
\* timer, reject
TimerFire(r, q) ==
  /\ timer[r][q] = "armed"
  /\ timer' = [timer EXCEPT ![r][q] = "fired"]
  /\ signals' = Deliver(r, q, TimeoutSignal)
  /\ killTimer' = [killTimer EXCEPT ![r][q] = "armed"]
  /\ IF promise[r][q] = "pending"
     THEN /\ promise' = [promise EXCEPT ![r][q] = "rejected"]
          /\ Caught(r, ErrTimeout, scratch,
                    Append(trace[r], Event("transcode", q, "timeout")))
     ELSE UNCHANGED << promise, pc, trace, error, response, unlinkFailed, scratch >>
  /\ UNCHANGED << data, sanitizedId, tempFiles, metadata, qi, processedFiles,
                  proc, outputPath, now, objects, ledger, sanitizeVars, parseVars >>

\* the 5 s callback (line 124): kill('SIGKILL'), which ends a process that
\* still runs
KillTimerFire(r, q) ==
  /\ killTimer[r][q] = "armed"
  /\ killTimer' = [killTimer EXCEPT ![r][q] = "fired"]
  /\ signals' = Deliver(r, q, GraceSignal)
  /\ proc' = [proc EXCEPT ![r][q] =
                IF @ = "running" /\ Ends(GraceSignal) THEN "exited" ELSE @]
  /\ UNCHANGED << handlerVars, promise, timer, outputPath, sharedVars,
                  sanitizeVars, parseVars >>

\* line 305 settles; on success the entry is recorded (line 307) and the
\* loop goes on
UploadDone(r, ok) ==
  /\ pc[r] = "upload"
  /\ LET q == Qualities[qi[r]] IN
       IF ok
       THEN /\ TempOutputFile(data[r].videoId, q) \in scratch
            /\ objects' = objects \cup {Destination(data[r].videoId, q)}
            /\ processedFiles' = [processedFiles EXCEPT ![r] =
                 @ \cup {[quality |-> q, url |-> Locator(data[r].videoId, q)]}]
            /\ trace' = [trace EXCEPT ![r] = Append(@, Event("upload", q, "ok"))]
            /\ AdvanceLoop(r, qi[r] + 1, metadata[r][1])
            /\ UNCHANGED << error, response, unlinkFailed, scratch >>
       ELSE /\ Caught(r, "upload failed", scratch,
                      Append(trace[r], Event("upload", q, "error")))
            /\ UNCHANGED << objects, processedFiles, tempFiles, qi, proc,
                            promise, timer, outputPath >>
  /\ UNCHANGED << data, sanitizedId, metadata, killTimer, signals, now, ledger,
                  sanitizeVars, parseVars >>

\* lines 310-334: the upsert of the completed record settles; on success
\* the insert of lines 339-345 is issued
UpsertDone(r, reply) ==
  /\ pc[r] = "upsert"
  /\ IF reply = "ok"
     THEN /\ ledger' = Upsert(ledger, Row(sanitizedId[r], "completed",
                                          metadata[r], processedFiles[r]))
          /\ trace' = [trace EXCEPT ![r] = Append(@, Event("upsert", "completed", "ok"))]
          /\ pc' = [pc EXCEPT ![r] = "insert"]
          /\ UNCHANGED << error, response, unlinkFailed, scratch >>
     ELSE /\ Caught(r, "upsert failed", scratch,
                    Append(trace[r], Event("upsert", "completed", "error")))
          /\ UNCHANGED ledger
  /\ UNCHANGED << data, sanitizedId, tempFiles, metadata, qi, processedFiles,
                  transcodeVars, now, objects, sanitizeVars, parseVars >>

\* lines 338-362: the insert of the 'processing' record settles; on success
\* cleanup() runs and the update to 'failed' of lines 355-362 is issued
InsertDone(r, reply) ==
  /\ pc[r] = "insert"
  /\ IF reply = "ok"
     THEN \E failing \in Deletable(r, scratch) :
            /\ ledger' = Insert(ledger, Row(sanitizedId[r], "processing", <<>>, {}))
            /\ scratch' = cleanup(tempFiles[r], scratch, failing)
            /\ unlinkFailed' = [unlinkFailed EXCEPT ![r] = failing]
            /\ trace' = [trace EXCEPT ![r] =
                           @ \o << Event("insert", "processing", "ok"),
                                   Event("cleanup", "", "ok") >>]
            /\ IF HasIdentity(sanitizedId[r])
               THEN /\ pc' = [pc EXCEPT ![r] = "ok_update"]
                    /\ UNCHANGED response
               ELSE Respond(r, 200,
                            ResponseMessage("Processing completed successfully",
                                            "none", failing))
            /\ UNCHANGED error
     ELSE /\ Caught(r, "insert failed", scratch,
                    Append(trace[r], Event("insert", "processing", "error")))
          /\ UNCHANGED ledger
  /\ UNCHANGED << data, sanitizedId, tempFiles, metadata, qi, processedFiles,
                  transcodeVars, now, objects, sanitizeVars, parseVars >>

\* lines 355-369: the update to 'failed' on the success path settles (an
\* error is only logged) and the handler responds 200
OkUpdateDone(r, reply) ==
  /\ pc[r] = "ok_update"
  /\ ledger' = IF reply = "ok" THEN UpdateStatus(ledger, sanitizedId[r], "failed")
               ELSE ledger
  /\ trace' = [trace EXCEPT ![r] = Append(@, Event("update", "failed", reply))]
  /\ Respond(r, 200, ResponseMessage("Processing completed successfully",
                                     reply, unlinkFailed[r]))
  /\ UNCHANGED << data, sanitizedId, tempFiles, metadata, qi, processedFiles,
                  error, unlinkFailed, transcodeVars, now, scratch, objects,
                  sanitizeVars, parseVars >>

\* lines 380-395: the update to 'failed' of the catch block settles (an
\* error is only logged); cleanup() runs and the handler responds 500
FailUpdateDone(r, reply) ==
  /\ pc[r] = "fail_update"
  /\ ledger' = IF reply = "ok" THEN UpdateStatus(ledger, sanitizedId[r], "failed")
               ELSE ledger
  /\ \E failing \in Deletable(r, scratch) :
       /\ scratch' = cleanup(tempFiles[r], scratch, failing)
       /\ unlinkFailed' = [unlinkFailed EXCEPT ![r] = failing]
       /\ Respond(r, FailureStatus(error[r]),
                   ResponseMessage(error[r], reply, failing))
  /\ trace' = [trace EXCEPT ![r] =
                 @ \o << Event("update", "failed", reply), Event("cleanup", "", "ok") >>]
  /\ UNCHANGED << data, sanitizedId, tempFiles, metadata, qi, processedFiles,
                  error, transcodeVars, now, objects, sanitizeVars, parseVars >>

\* The response has been sent: the locals of the invocation are garbage.
\* Processes and timers of its transcodeVideo calls live on until they have
\* run out.
Quiet(r, q) ==
  proc[r][q] # "running" /\ timer[r][q] # "armed" /\ killTimer[r][q] # "armed"

Release(r) ==
  /\ pc[r] = "done"
  /\ pc' = [pc EXCEPT ![r] = "released"]
  /\ data' = [data EXCEPT ![r] = NoJob]
  /\ sanitizedId' = [sanitizedId EXCEPT ![r] = <<>>]
  /\ tempFiles' = [tempFiles EXCEPT ![r] = <<>>]
  /\ metadata' = [metadata EXCEPT ![r] = <<>>]
  /\ qi' = [qi EXCEPT ![r] = 0]
  /\ processedFiles' = [processedFiles EXCEPT ![r] = {}]
  /\ error' = [error EXCEPT ![r] = ""]
  /\ response' = [response EXCEPT ![r] = NoResponse]
  /\ trace' = [trace EXCEPT ![r] = <<>>]
  /\ unlinkFailed' = [unlinkFailed EXCEPT ![r] = {}]
  /\ proc' = [proc EXCEPT ![r] = [q \in QualitySet |->
                IF Quiet(r, q) THEN "none" ELSE proc[r][q]]]
  /\ promise' = [promise EXCEPT ![r] = [q \in QualitySet |->
                   IF Quiet(r, q) THEN "none" ELSE promise[r][q]]]
  /\ timer' = [timer EXCEPT ![r] = [q \in QualitySet |->
                 IF Quiet(r, q) THEN "none" ELSE timer[r][q]]]
  /\ killTimer' = [killTimer EXCEPT ![r] = [q \in QualitySet |->
                     IF Quiet(r, q) THEN "none" ELSE killTimer[r][q]]]
  /\ signals' = [signals EXCEPT ![r] = [q \in QualitySet |->
                   IF Quiet(r, q) THEN <<>> ELSE signals[r][q]]]
  /\ outputPath' = [outputPath EXCEPT ![r] = [q \in QualitySet |->
                      IF Quiet(r, q) THEN NoFile ELSE outputPath[r][q]]]
  /\ UNCHANGED << sharedVars, sanitizeVars, parseVars >>

(***************************************************************************)
(* The service.  The instance is deployed with a request concurrency of 1  *)
(* (cloudbuild.yaml, --concurrency 1): a request is handed to the handler  *)
(* once the one before it has been answered.                               *)
(***************************************************************************)
Serial(r) == \A o \in Req : o < r => pc[o] = "released"

ReceiveSerial(r, b) == Serial(r) /\ Receive(r, b)

\* the steps of request r
Step(r) ==
  \/ \E b \in Bodies : ReceiveSerial(r, b)
  \/ \E ok \in BOOLEAN, partial \in BOOLEAN : DownloadDone(r, ok, partial)
  \/ \E probe \in Probes : ValidateDone(r, probe)
  \/ \E q \in QualitySet : ProcWrite(r, q)
  \/ \E q \in QualitySet : ProcEnd(r, q)
  \/ \E q \in QualitySet : ProcError(r, q)
  \/ \E q \in QualitySet : TimerFire(r, q)
  \/ \E q \in QualitySet : KillTimerFire(r, q)
  \/ \E ok \in BOOLEAN : UploadDone(r, ok)
  \/ \E reply \in Replies : UpsertDone(r, reply)
  \/ \E reply \in Replies : InsertDone(r, reply)
  \/ \E reply \in Replies : OkUpdateDone(r, reply)
  \/ \E reply \in Replies : FailUpdateDone(r, reply)
  \/ Release(r)

Next == \E r \in Req : Step(r)

Spec == Init /\ [][Next]_vars

\* The event loop runs the callback of an armed timer once its delay is
\* over: the timeout timer of line 122 and the 5 s timer of line 124 fire
\* unless they are cleared first.
TimersFire ==
  \A r \in Req, q \in QualitySet :
    WF_vars(TimerFire(r, q)) /\ WF_vars(KillTimerFire(r, q))

\* One request on its own, with the timers firing: the processes and
\* timers of an invocation are touched by no other invocation.
NextOne == Step(1)

SpecLive == Init /\ [][NextOne]_vars /\ TimersFire

\* Every collaborator call the handler awaits settles: the download, the
\* probe, the upload and the ledger calls resolve or reject.
CallsSettle ==
  \A r \in Req :
    /\ WF_vars(\E ok \in BOOLEAN, partial \in BOOLEAN : DownloadDone(r, ok, partial))
    /\ WF_vars(\E probe \in Probes : ValidateDone(r, probe))
    /\ WF_vars(\E ok \in BOOLEAN : UploadDone(r, ok))
    /\ WF_vars(\E reply \in Replies : UpsertDone(r, reply))
    /\ WF_vars(\E reply \in Replies : InsertDone(r, reply))
    /\ WF_vars(\E reply \in Replies : OkUpdateDone(r, reply))
    /\ WF_vars(\E reply \in Replies : FailUpdateDone(r, reply))

\* One request on its own, with the timers firing and the calls settling.
SpecResponds == Init /\ [][NextOne]_vars /\ TimersFire /\ CallsSettle

(***************************************************************************)
(* The handler on its own, without the limit of the deployment: Express    *)
(* starts the handler for a request whenever one arrives, and nothing in   *)
(* index.ts makes a request wait for the one before it.  The invocations   *)
(* interleave at their awaits and share /tmp, the bucket and the table.    *)
(* The requested objects are one with an ordinary name and one whose name  *)
(* sanitizes to nothing; the probe fails, or reports an mp4 of height 240  *)
(* (every quality is skipped) or 360 (360p is transcoded).                 *)
(***************************************************************************)
ConcurrentBodies == {Envelope(NameLower), Envelope(NameBang)}

ConcurrentProbes ==
  { Probe(TRUE, <<>>, FALSE, <<>>),
    Probe(FALSE, FormatMp4, TRUE, <<240>>),
    Probe(FALSE, FormatMp4, TRUE, <<360>>) }

StepConcurrent(r) ==
  \/ \E b \in ConcurrentBodies : Receive(r, b)
  \/ \E ok \in BOOLEAN : DownloadDone(r, ok, FALSE)
  \/ \E probe \in ConcurrentProbes : ValidateDone(r, probe)
  \/ \E q \in QualitySet : ProcWrite(r, q)
  \/ \E q \in QualitySet : ProcEnd(r, q)
  \/ \E q \in QualitySet : ProcError(r, q)
  \/ \E q \in QualitySet : TimerFire(r, q)
  \/ \E q \in QualitySet : KillTimerFire(r, q)
  \/ \E ok \in BOOLEAN : UploadDone(r, ok)
  \/ \E reply \in Replies : UpsertDone(r, reply)
  \/ \E reply \in Replies : InsertDone(r, reply)
  \/ \E reply \in Replies : OkUpdateDone(r, reply)
  \/ \E reply \in Replies : FailUpdateDone(r, reply)
  \/ Release(r)

NextConcurrent == \E r \in Req : StepConcurrent(r)

SpecConcurrent == Init /\ [][NextConcurrent]_vars

(***************************************************************************)
(* The service fed with its own output.  A request for a raw object is     *)
(* followed by requests whose event names an object of the processed       *)
(* bucket: one the pipeline has uploaded (line 305).  The probe reports an *)
(* mp4 of height 360, so 360p is transcoded and 720p skipped.              *)
(***************************************************************************)
\* `${quality}.mp4`
QualityFile(q) ==
  IF q = "360p" THEN << "3", "6", "0", "p", ".", "m", "p", "4" >>
  ELSE << "7", "2", "0", "p", ".", "m", "p", "4" >>

\* the name of an uploaded object: `processed/${videoId}/${quality}.mp4`
ObjectKey(d) ==
  << "p", "r", "o", "c", "e", "s", "s", "e", "d", "/" >> \o d.id \o << "/" >>
    \o QualityFile(d.file)

\* the storage event of an object of the processed bucket
ProcessedEnvelope(d) ==
  Body(Payload(BUCKET_NAME, ObjectKey(d), "", <<>>), NoData, "", <<>>)

ReceiveProcessed(r) ==
  \E d \in objects : ReceiveSerial(r, ProcessedEnvelope(d))

LoopProbes == {Probe(FALSE, FormatMp4, TRUE, <<360>>)}

StepLoop(r) ==
  \/ ReceiveSerial(r, Envelope(NameLower))
  \/ ReceiveProcessed(r)
  \/ \E ok \in BOOLEAN : DownloadDone(r, ok, FALSE)
  \/ \E probe \in LoopProbes : ValidateDone(r, probe)
  \/ \E q \in QualitySet : ProcWrite(r, q)
  \/ \E q \in QualitySet : ProcEnd(r, q)
  \/ \E q \in QualitySet : ProcError(r, q)
  \/ \E q \in QualitySet : TimerFire(r, q)
  \/ \E q \in QualitySet : KillTimerFire(r, q)
  \/ \E ok \in BOOLEAN : UploadDone(r, ok)
  \/ \E reply \in Replies : UpsertDone(r, reply)
  \/ \E reply \in Replies : InsertDone(r, reply)
  \/ \E reply \in Replies : OkUpdateDone(r, reply)
  \/ \E reply \in Replies : FailUpdateDone(r, reply)
  \/ Release(r)

NextLoop == \E r \in Req : StepLoop(r)

SpecLoop == Init /\ [][NextLoop]_vars

(***************************************************************************)
(* Two objects of one folder, two levels down: "u/v/a" and "u/v/b".  The   *)
(* requests for them are handled as in SpecConcurrent, so that the keys    *)
(* the handler derives for both can be compared while both are in flight.  *)
(***************************************************************************)
NameDeepA == <<"u", "/", "v", "/", "a">>
NameDeepB == <<"u", "/", "v", "/", "b">>

KeyBodies == {Envelope(NameDeepA), Envelope(NameDeepB)}

StepKeys(r) ==
  \/ \E b \in KeyBodies : Receive(r, b)
  \/ \E ok \in BOOLEAN : DownloadDone(r, ok, FALSE)
  \/ \E probe \in LoopProbes : ValidateDone(r, probe)
  \/ \E q \in QualitySet : ProcWrite(r, q)
  \/ \E q \in QualitySet : ProcEnd(r, q)
  \/ \E q \in QualitySet : ProcError(r, q)
  \/ \E q \in QualitySet : TimerFire(r, q)
  \/ \E q \in QualitySet : KillTimerFire(r, q)
  \/ \E ok \in BOOLEAN : UploadDone(r, ok)
  \/ \E reply \in Replies : UpsertDone(r, reply)
  \/ \E reply \in Replies : InsertDone(r, reply)
  \/ \E reply \in Replies : OkUpdateDone(r, reply)
  \/ \E reply \in Replies : FailUpdateDone(r, reply)
  \/ Release(r)

NextKeys == \E r \in Req : StepKeys(r)

SpecKeys == Init /\ [][NextKeys]_vars

(***************************************************************************)
(* sanitizeVideoId on its own: the input is drawn from the strings made of *)
(* a run of "a" (none, or long enough to reach the truncation bound)       *)
(* followed by a free tail; the function is applied to the input and then  *)
(* to its own result.                                                      *)
(***************************************************************************)
TailChars == {"a", "B", "7", "-", ".", "/", "!"}

Tails == UNION {[1..n -> TailChars] : n \in 0..MaxTail}

PadLengths == {0, MaxIdLength - 2, MaxIdLength - 1}

SanitizeInputs == {Repeat("a", n) \o t : n \in PadLengths, t \in Tails}

InitSanitize ==
  /\ HandlerInit
  /\ ParseIdle
  /\ sInput \in SanitizeInputs
  /\ sOnce = <<>>
  /\ sTwice = <<>>
  /\ sAgain = <<>>
  /\ sStage = "input"

ApplyOnce ==
  /\ sStage = "input"
  /\ \E t \in DateNow(sInput) :
       /\ now' = t
       /\ sOnce' = sanitizeVideoId(sInput, t)
  /\ sStage' = "once"
  /\ UNCHANGED << handlerVars, transcodeVars, scratch, objects, ledger, sInput,
                  sTwice, sAgain, parseVars >>

ApplyTwice ==
  /\ sStage = "once"
  /\ \E t \in DateNow(sOnce) :
       /\ now' = t
       /\ sTwice' = sanitizeVideoId(sOnce, t)
  /\ sStage' = "twice"
  /\ UNCHANGED << handlerVars, transcodeVars, scratch, objects, ledger, sInput,
                  sOnce, sAgain, parseVars >>

\* a later call of sanitizeVideoId on the input of the first call
ApplyAgain ==
  /\ sStage = "once"
  /\ \E t \in DateNow(sInput) :
       /\ now' = t
       /\ sAgain' = sanitizeVideoId(sInput, t)
  /\ sStage' = "again"
  /\ UNCHANGED << handlerVars, transcodeVars, scratch, objects, ledger, sInput,
                  sOnce, sTwice, parseVars >>

NextSanitize == ApplyOnce \/ ApplyTwice \/ ApplyAgain

SpecSanitize == InitSanitize /\ [][NextSanitize]_vars

(***************************************************************************)
(* The event parsing (index.ts lines 219-257) on its own: the body is      *)
(* drawn from the bodies built of an absent, unparsable or parsed message  *)
(* payload, an absent or present data field and top-level fields, each     *)
(* bucket and name absent or present.                                      *)
(***************************************************************************)
ParseBuckets == {"", RawBucket}

ParseNames == {<<>>, NameLower, NameUpper}

Messages ==
  {NoMessage, Unparsable}
    \cup {Payload(b, n, bid, oid) : b \in ParseBuckets, n \in ParseNames,
                                    bid \in ParseBuckets, oid \in ParseNames}

DataFields ==
  {NoData} \cup {DataField(b, n) : b \in ParseBuckets, n \in ParseNames}

ParseBodies ==
  {Body(m, d, b, n) : m \in Messages, d \in DataFields,
                      b \in ParseBuckets, n \in ParseNames}

InitParse ==
  /\ HandlerInit
  /\ SanitizeIdle
  /\ pBody \in ParseBodies
  /\ pEvent = NoEvent
  /\ pStage = "body"

Normalize ==
  /\ pStage = "body"
  /\ pEvent' = ParseEvent(pBody)
  /\ pStage' = "parsed"
  /\ UNCHANGED << handlerVars, transcodeVars, sharedVars, sanitizeVars, pBody >>

NextParse == Normalize

SpecParse == InitParse /\ [][NextParse]_vars

(***************************************************************************)
(* Properties.                                                             *)
(***************************************************************************)
Stages == {"download", "validate", "transcode", "upload"}

StageErrors ==
  { "download failed", "Failed to probe video file", "Unsupported video format",
    "No video stream found", ErrTranscode, ErrTimeout, "upload failed" }

Completed(id) == \E x \in ledger : x.id = id /\ x.status = "completed"

Happened(r, e) == e \in Range(trace[r])

\* every collaborator call of the invocation succeeded
NoFailure(r) ==
  /\ error[r] = ""
  /\ \A i \in DOMAIN trace[r] : trace[r][i].result = "ok"

\* download, validation and every transcode and upload succeeded: the
\* quality loop has run to its end
LoopCompleted(r) ==
  \/ pc[r] \in {"upsert", "insert", "ok_update"}
  \/ pc[r] = "done" /\ response[r].status = 200

ProcessedQualities(r) == {e.quality : e \in processedFiles[r]}

\* C1: no invocation is downloading, validating, transcoding or uploading
\* for a job identity whose ledger record is Completed
C1_IdempotencyGate ==
  \A r \in Req : pc[r] \in Stages => ~Completed(sanitizedId[r])

\* C2: once the handler has responded, none of the temporary files the
\* invocation registered exists under /tmp (stated for the invocations none
\* of whose unlinkSync calls threw)
C2_CleanupInvariant ==
  \A r \in Req :
    pc[r] = "done" /\ unlinkFailed[r] = {} => Range(tempFiles[r]) \cap scratch = {}

\* C3: when every stage and every ledger write of an invocation succeeded,
\* the record of the job is Completed, with the processed outputs and the
\* metadata, when the handler has responded
C3_SuccessfulCommit ==
  \A r \in Req :
    pc[r] = "done" /\ NoFailure(r) =>
      \E x \in ledger : /\ x.id = sanitizedId[r]
                        /\ x.status = "completed"
                        /\ x.processed_videos = processedFiles[r]
                        /\ x.metadata = metadata[r]

\* C4: when a stage failed (and the ledger accepted the update the catch
\* block sent), the record of the job is Failed when the handler has
\* responded
C4_FailureCommit ==
  \A r \in Req :
    /\ pc[r] = "done"
    /\ error[r] \in StageErrors
    /\ Happened(r, Event("update", "failed", "ok"))
    => \E x \in ledger : x.id = sanitizedId[r] /\ x.status = "failed"

\* C5, as claimed: in a run whose stages all succeeded a profile is absent
\* from the processed outputs iff the probed height is known and strictly
\* less than the profile's height
C5_NeverUpscaleAsClaimed ==
  \A r \in Req : LoopCompleted(r) =>
    \A q \in QualitySet :
      q \notin ProcessedQualities(r)
        <=> (metadata[r][1].height # <<>>
               /\ metadata[r][1].height[1] < QualityHeight(q))

\* C5, amended: in a run whose stages all succeeded a profile is absent
\* from the processed outputs iff the probed height is known, is not 0 and
\* is strictly less than the profile's height; every other profile has been
\* transcoded and uploaded and is present in the processed outputs
C5_NeverUpscale ==
  \A r \in Req : LoopCompleted(r) =>
    \A q \in QualitySet :
      LET h == metadata[r][1].height
          below == h # <<>> /\ h[1] # 0 /\ h[1] < QualityHeight(q)
      IN  /\ below <=> q \notin ProcessedQualities(r)
          /\ ~below =>
               /\ [quality |-> q, url |-> Locator(data[r].videoId, q)]
                    \in processedFiles[r]
               /\ Destination(data[r].videoId, q) \in objects
               /\ Happened(r, Event("transcode", q, "ok"))
               /\ Happened(r, Event("upload", q, "ok"))

C5_Witness ==
  \E r \in Req :
    /\ LoopCompleted(r)
    /\ metadata[r][1].height = <<360>>
    /\ ProcessedQualities(r) = {"360p"}

\* C6: the signals delivered to a transcoding process are SIGTERM first and
\* SIGKILL (if any) after it; a process that outlives its budget has been
\* sent SIGTERM, and SIGKILL is delivered by the grace-period timer only
C6_TerminationSequence ==
  \A r \in Req, q \in QualitySet :
    /\ signals[r][q] \in {<<>>, <<"SIGTERM">>, <<"SIGTERM", "SIGKILL">>}
    /\ timer[r][q] = "fired" /\ proc[r][q] = "running" => signals[r][q] # <<>>
    /\ "SIGKILL" \in Range(signals[r][q]) => killTimer[r][q] = "fired"

C6_Witness ==
  \E r \in Req, q \in QualitySet : signals[r][q] = <<"SIGTERM", "SIGKILL">>

\* C7: a request whose transcode timed out is answered with status 429
C7_TimeoutRetryable ==
  \A r \in Req : pc[r] = "done" /\ error[r] = ErrTimeout => response[r].status = 429

\* C8: a Completed record lists every profile the never-upscale rule did
\* not skip; an invocation one of whose transcodes failed leaves the objects
\* it uploaded before in the bucket and has written no Completed record
C8_AllOrNothing ==
  /\ \A x \in ledger : x.status = "completed" =>
       \A q \in QualitySet :
         LET h == x.metadata[1].height IN
           (h = <<>> \/ h[1] = 0 \/ h[1] >= QualityHeight(q))
             => \E e \in x.processed_videos : e.quality = q
  /\ \A r \in Req : error[r] \in {ErrTranscode, ErrTimeout} =>
       /\ \A e \in processedFiles[r] : e.url.key \in objects
       /\ ~Happened(r, Event("upsert", "completed", "ok"))

C8_Witness ==
  \E r \in Req :
    /\ pc[r] = "done"
    /\ error[r] = ErrTranscode
    /\ ProcessedQualities(r) = {"360p"}
    /\ Destination(data[r].videoId, "360p") \in objects

\* the identities C9 allows: not empty, at most 100 characters, lowercase
\* letters, digits and single hyphens, no hyphen at either end
WellFormedId(id) ==
  /\ id # <<>>
  /\ Len(id) <= 100
  /\ \A i \in 1..Len(id) : id[i] \in LowerChars \cup DigitChars \cup {Hyphen}
  /\ \A i \in 1..(Len(id) - 1) : ~(id[i] = Hyphen /\ id[i + 1] = Hyphen)
  /\ id[1] # Hyphen
  /\ id[Len(id)] # Hyphen

\* C9: sanitizeVideoId returns a well-formed identity for every input
C9_WellFormedIdentity ==
  sStage \in {"once", "twice", "again"} => WellFormedId(sOnce)

\* C10: sanitizeVideoId applied to its own result returns that result
C10_Idempotent == sStage = "twice" => sTwice = sOnce

\* C11: two calls of sanitizeVideoId on the same object key, at any two
\* times, return the same identity
C11_Deterministic == sStage = "again" => sAgain = sOnce

\* a bucket and an object key are both given
HasRef(b, n) == b # "" /\ n # <<>>

Accepted(b, n) == [error |-> "", bucket |-> b, name |-> n]

\* C12: a body that carries {bucket, name} directly and a push envelope
\* whose decoded payload carries {bucket, name} are both accepted and yield
\* the bucket and the object key they carry
C12_BothShapes ==
  pStage = "parsed" =>
    /\ (/\ ~pBody.message.present
        /\ ~pBody.data.present
        /\ HasRef(pBody.bucket, pBody.name))
         => pEvent = Accepted(pBody.bucket, pBody.name)
    /\ (/\ pBody.message.parsable
        /\ ~pBody.data.present
        /\ ~HasRef(pBody.bucket, pBody.name)
        /\ HasRef(pBody.message.bucket, pBody.message.name))
         => pEvent = Accepted(pBody.message.bucket, pBody.message.name)

\* the direct fields of a body: those of body.data, or the top-level ones
DirectFields(body) ==
  IF body.data.present
  THEN [bucket |-> body.data.bucket, name |-> body.data.name]
  ELSE [bucket |-> body.bucket, name |-> body.name]

\* C14: when a body carries direct fields and an embedded payload that name
\* different objects, the source reference is that of the direct fields
C14_DirectFirst ==
  (/\ pStage = "parsed"
   /\ pBody.message.parsable
   /\ HasRef(pBody.message.bucket, pBody.message.name)
   /\ HasRef(DirectFields(pBody).bucket, DirectFields(pBody).name)
   /\ DirectFields(pBody).name # pBody.message.name)
    => pEvent = Accepted(DirectFields(pBody).bucket, DirectFields(pBody).name)

\* the errors the event parsing throws
ParseErrors ==
  { "Unexpected token in JSON", "Invalid event format",
    "Missing required fields in message data" }

\* C13: a request whose trigger is malformed is answered with status 400
C13_MalformedIs400 ==
  \A r \in Req :
    pc[r] = "done" /\ error[r] \in ParseErrors => response[r].status = 400

\* C15: every object an invocation has uploaded for a profile is stored
\* under processed/{identity}/{profile}.mp4, the identity being the
\* sanitized identity that keys the ledger
C15_OutputNaming ==
  \A r \in Req, q \in QualitySet :
    Happened(r, Event("upload", q, "ok")) =>
      /\ Destination(sanitizedId[r], q) \in objects
      /\ \E e \in processedFiles[r] :
           e.quality = q /\ e.url = Locator(sanitizedId[r], q)

\* e occurs in the trace of r, and f after it
Before(r, e, f) ==
  \E i, j \in DOMAIN trace[r] : i < j /\ trace[r][i] = e /\ trace[r][j] = f

\* C19: while the download (or a later stage) of an invocation is under
\* way the record of its job has status Processing, and no invocation
\* writes status Processing after it has written Completed
C19_ProcessingAtStart ==
  \A r \in Req :
    /\ pc[r] \in Stages =>
         \E x \in ledger : x.id = sanitizedId[r] /\ x.status = "processing"
    /\ ~Before(r, Event("upsert", "completed", "ok"),
                  Event("insert", "processing", "ok"))

\* the messages of the errors a failed call of a stage throws
MessagesOf(e) ==
  CASE e.op = "download" -> {"download failed"}
    [] e.op = "ffprobe" -> { "Failed to probe video file",
                             "Unsupported video format", "No video stream found" }
    [] e.op = "transcode" /\ e.result = "timeout" -> {ErrTimeout}
    [] e.op = "transcode" -> {ErrTranscode}
    [] e.op = "upload" -> {"upload failed"}
    [] OTHER -> {}

StageOps == {"download", "ffprobe", "transcode", "upload"}

\* C16: when a stage failed and the update of the status to 'failed' failed
\* too, the handler has run cleanup after the update and has answered 500
\* with the message of the error of the stage
C16_PrimaryErrorKept ==
  \A r \in Req :
    pc[r] = "done" /\ Happened(r, Event("update", "failed", "error")) =>
      \A i \in DOMAIN trace[r] :
        trace[r][i].op \in StageOps /\ trace[r][i].result # "ok" =>
          /\ response[r].status = 500
          /\ response[r].message \in MessagesOf(trace[r][i])
          /\ response[r].message = error[r]
          /\ Before(r, Event("update", "failed", "error"), Event("cleanup", "", "ok"))

C16_Witness ==
  \E r \in Req :
    /\ pc[r] = "done"
    /\ Happened(r, Event("upload", "360p", "error"))
    /\ Happened(r, Event("update", "failed", "error"))
    /\ response[r] = [status |-> 500, message |-> "upload failed"]

\* the response that goes with the outcome of an invocation
Outcome(err) ==
  IF err = ""
  THEN [status |-> 200, message |-> "Processing completed successfully"]
  ELSE [status |-> 500, message |-> err]

\* C17: the response of an invocation is the one that goes with its outcome
\* (success, or the error caught), whether or not deletions of temporary
\* files failed
C17_CleanupSwallowed ==
  \A r \in Req : pc[r] = "done" => response[r] = Outcome(error[r])

C17_Witness ==
  \E r \in Req :
    /\ pc[r] = "done"
    /\ unlinkFailed[r] # {}
    /\ unlinkFailed[r] \subseteq scratch
    /\ response[r].status = 200

\* the calls of the stages an invocation has completed, in order
StageEvents(r) == SelectSeq(trace[r], LAMBDA e : e.op \in StageOps)

\* the place of a stage in the pipeline: download, validation, then for
\* each profile in catalog order its transcode and its upload
Rank(e) ==
  CASE e.op = "download" -> 1
    [] e.op = "ffprobe" -> 2
    [] e.op = "transcode" /\ e.quality = "360p" -> 3
    [] e.op = "upload" /\ e.quality = "360p" -> 4
    [] e.op = "transcode" /\ e.quality = "720p" -> 5
    [] e.op = "upload" /\ e.quality = "720p" -> 6
    [] OTHER -> 0

Running(r) == {q \in QualitySet : proc[r][q] = "running"}

\* C18: within an invocation a stage starts only when the stage before it
\* has succeeded: download, then validation, then per profile in catalog
\* order the transcode and then the upload; while the handler awaits a stage
\* no transcoding process of the invocation runs but the one it awaits
C18_StageOrder ==
  \A r \in Req :
    LET st == StageEvents(r) IN
      /\ \A i \in 1..(Len(st) - 1) :
           st[i].result = "ok" /\ Rank(st[i]) < Rank(st[i + 1])
      /\ \A i \in 1..Len(st) :
           /\ st[i].op = "ffprobe" => i = 2 /\ st[1].op = "download"
           /\ st[i].op = "transcode" => i > 2 /\ st[2].op = "ffprobe"
           /\ st[i].op = "upload" =>
                i > 1 /\ st[i - 1] = Event("transcode", st[i].quality, "ok")
      /\ pc[r] = "download" => st = <<>> /\ Running(r) = {}
      /\ pc[r] = "validate" => st = <<Event("download", "", "ok")>> /\ Running(r) = {}
      /\ pc[r] = "transcode" =>
           /\ st[Len(st)].op \in {"ffprobe", "upload"}
           /\ st[Len(st)].result = "ok"
           /\ Running(r) \subseteq {Qualities[qi[r]]}
      /\ pc[r] = "upload" =>
           /\ st[Len(st)] = Event("transcode", Qualities[qi[r]], "ok")
           /\ Running(r) = {}

C18_Witness ==
  \E r \in Req :
    StageEvents(r) = << Event("download", "", "ok"), Event("ffprobe", "", "ok"),
                        Event("transcode", "360p", "ok"), Event("upload", "360p", "ok"),
                        Event("transcode", "720p", "ok"), Event("upload", "720p", "ok") >>

\* C20: a transcoding process that is still running when its transcode has
\* timed out is eventually terminated
C20_NoLeakedTranscode ==
  \A r \in Req, q \in QualitySet :
    (timer[r][q] = "fired" /\ proc[r][q] = "running") ~> (proc[r][q] # "running")

C20_Witness ==
  \E r \in Req, q \in QualitySet :
    /\ pc[r] = "done"
    /\ error[r] = ErrTimeout
    /\ killTimer[r][q] = "fired"
    /\ proc[r][q] = "exited"
    /\ signals[r][q] = <<TimeoutSignal, GraceSignal>>

\* C21: once a call of a stage has failed, the invocation starts no
\* further stage and writes no Completed record: the failed call is the
\* last call of a stage, no upsert follows, and the handler is in its catch
\* block or has responded
C21_AbortOnFailure ==
  \A r \in Req :
    \A i \in DOMAIN trace[r] :
      trace[r][i].op \in StageOps /\ trace[r][i].result # "ok" =>
        /\ \A j \in DOMAIN trace[r] :
             j > i => trace[r][j].op \in {"update", "cleanup"}
        /\ pc[r] \in {"fail_update", "done"}
        /\ Running(r) \subseteq {trace[r][i].quality}

C21_Witness ==
  \E r \in Req :
    /\ pc[r] = "done"
    /\ Happened(r, Event("upload", "360p", "error"))
    /\ ~Happened(r, Event("transcode", "720p", "ok"))
    /\ metadata[r][1].height = <<>>

TransportErrors == {"download failed", "upload failed"}

FatalErrors ==
  {"Unsupported video format", "No video stream found", ErrTranscode}

\* C22: the status that answers a download or upload failure differs from
\* the status the handler gives a validation failure or a transcode failure
C22_DistinctSignals ==
  \A r \in Req :
    pc[r] = "done" /\ error[r] \in TransportErrors =>
      \A m \in FatalErrors : response[r].status # FailureStatus(m)

\* C23: a response of 200 goes with a record that is Completed at the time
\* of the response, and an error status with an invocation that has not
\* left the record Completed
C23_ResponseAgreesWithLedger ==
  \A r \in Req :
    pc[r] = "done" =>
      /\ response[r].status = 200 => Completed(sanitizedId[r])
      /\ response[r].status >= 400 =>
           ~(/\ Happened(r, Event("upsert", "completed", "ok"))
             /\ Completed(sanitizedId[r]))

\* C26: an invocation whose event parsing failed has registered no
\* temporary file, built no job, called no collaborator (no download, no
\* probe, no transcode, no upload, no ledger write) and has responded
C26_MalformedNoEffects ==
  \A r \in Req :
    error[r] \in ParseErrors =>
      /\ pc[r] = "done"
      /\ tempFiles[r] = <<>>
      /\ data[r] = NoJob
      /\ trace[r] = <<Event("cleanup", "", "ok")>>
      /\ processedFiles[r] = {}
      /\ \A q \in QualitySet : proc[r][q] = "none"

C26_Witness ==
  \E r \in Req :
    /\ pc[r] = "done"
    /\ error[r] = "Missing required fields in message data"
    /\ response[r].status = 500

\* C28: once an invocation has written the Completed record of its job, the
\* record of the job stays Completed
C28_CompletedIsFinal ==
  \A r \in Req :
    Happened(r, Event("upsert", "completed", "ok")) =>
      \A x \in ledger : x.id = sanitizedId[r] => x.status = "completed"

\* C29: when the handler has responded after a transcode timeout, no
\* transcoding process of the invocation is running
C29_TerminatedAtResponse ==
  \A r \in Req : pc[r] = "done" /\ error[r] = ErrTimeout => Running(r) = {}

\* C30: the timeout timer of a transcodeVideo call whose promise has settled
\* is not armed
C30_TimerCancelled ==
  \A r \in Req, q \in QualitySet :
    promise[r][q] \in {"resolved", "rejected"} => timer[r][q] # "armed"

\* C27: every transcode invocation settles: a call of transcodeVideo whose
\* promise is pending is eventually resolved or rejected, even when the
\* process emits neither 'end' nor 'error'
C27_TranscodeSettles ==
  \A r \in Req, q \in QualitySet :
    (promise[r][q] = "pending") ~> (promise[r][q] # "pending")

\* C27: the timeout has rejected the call of a process that has emitted no
\* event, and the handler has left the transcode stage
C27_Witness ==
  \E r \in Req, q \in QualitySet :
    /\ timer[r][q] = "fired"
    /\ promise[r][q] = "rejected"
    /\ proc[r][q] = "running"
    /\ signals[r][q] = << TimeoutSignal >>
    /\ error[r] = ErrTimeout
    /\ pc[r] # "transcode"

\* an invocation that has built its job and has not yet responded
Executing(r) == pc[r] \notin {"idle", "done", "released"}

\* C24: two invocations that run at the same time for different job
\* identities have no temporary file path in common, input or output
C24_PartitionedScratch ==
  \A r, o \in Req :
    r # o /\ Executing(r) /\ Executing(o) /\ sanitizedId[r] # sanitizedId[o] =>
      Range(tempFiles[r]) \cap Range(tempFiles[o]) = {}

\* C25: a step of one invocation never deletes a temporary file that
\* another invocation has registered and has not yet finished with
C25_ExclusiveOwnership ==
  [][\A r, o \in Req :
       r # o /\ pc'[r] # pc[r] /\ Executing(o) =>
         (Range(tempFiles[o]) \cap scratch) \subseteq scratch']_vars

\* C31: on a stage failure cleanup runs before the update of the status to
\* 'failed' is attempted: while the update is awaited cleanup has run, and
\* no cleanup of a failed invocation comes after its update
C31_CleanupBeforeUpdate ==
  \A r \in Req :
    /\ pc[r] = "fail_update" => Happened(r, Event("cleanup", "", "ok"))
    /\ error[r] # "" =>
         \A reply \in Replies :
           ~Before(r, Event("update", "failed", reply), Event("cleanup", "", "ok"))

\* C32: an event of the processed bucket is answered 200 at once: the
\* invocation it starts makes no collaborator call (no download, transcode,
\* upload or ledger write) and starts no process
C32_LoopPrevention ==
  \A r \in Req :
    data[r].bucket = BUCKET_NAME =>
      /\ pc[r] = "done"
      /\ response[r].status = 200
      /\ trace[r] = <<>>
      /\ \A q \in QualitySet : proc[r][q] = "none"

\* C33: every locator among the processed outputs of an invocation, and of
\* every ledger record, names an object of the processed bucket that has
\* been uploaded; the invocation has completed the transcode and the upload
\* of that quality, and the record it has just written holds its outputs
C33_LocatorsUploaded ==
  /\ \A x \in ledger : \A e \in x.processed_videos :
       e.url.bucket = BUCKET_NAME /\ e.url.key \in objects
  /\ \A r \in Req :
       /\ \A e \in processedFiles[r] :
            /\ e.url = Locator(data[r].videoId, e.quality)
            /\ e.url.key \in objects
            /\ Before(r, Event("transcode", e.quality, "ok"),
                      Event("upload", e.quality, "ok"))
       /\ \A q \in QualitySet :
            ~Happened(r, Event("upload", q, "ok")) => q \notin ProcessedQualities(r)
       /\ pc[r] = "insert" =>
            Row(sanitizedId[r], "completed", metadata[r], processedFiles[r]) \in ledger

\* C33: a record has been written with the locators of both qualities
C33_Witness ==
  \E r \in Req :
    /\ pc[r] = "insert"
    /\ ProcessedQualities(r) = QualitySet
    /\ \E x \in ledger : x.id = sanitizedId[r] /\ x.processed_videos = processedFiles[r]

\* the final path segment of an object name
FileName(name) ==
  IF SlashAt(name) = {} THEN name
  ELSE SubSeq(name, (CHOOSE i \in SlashAt(name) : \A k \in SlashAt(name) : i >= k) + 1,
              Len(name))

\* the destinations an invocation uploads to
Destinations(r) == {Destination(data[r].videoId, q) : q \in QualitySet}

\* C34: two objects of one bucket whose file names sanitize to different
\* strings have different ledger keys, no temporary file path in common and
\* no output destination in common
C34_DistinctObjects ==
  \A r, o \in Req :
    /\ r # o /\ Executing(r) /\ Executing(o)
    /\ data[r].bucket = data[o].bucket
    /\ Sanitized(FileName(data[r].name)) # Sanitized(FileName(data[o].name))
    => /\ sanitizedId[r] # sanitizedId[o]
       /\ Range(tempFiles[r]) \cap Range(tempFiles[o]) = {}
       /\ Destinations(r) \cap Destinations(o) = {}

\* the response of the request has been sent
Responded(r) == response[r].status # 0

\* C35: every request gets exactly one response: an invocation under way
\* eventually responds, the handler has returned exactly when the response
\* is sent, and a response once sent is not replaced
C35_ExactlyOneResponse ==
  /\ \A r \in Req : Executing(r) ~> Responded(r)
  /\ [](\A r \in Req : pc[r] = "done" <=> Responded(r))
  /\ [][\A r \in Req : Responded(r) =>
           response'[r] = response[r] \/ pc'[r] = "released"]_vars

\* C35: the handler has responded after the last of its awaits, the update
\* of the catch block that follows a rejected insert
C35_Witness ==
  \E r \in Req :
    /\ pc[r] = "done"
    /\ Responded(r)
    /\ error[r] = "insert failed"
    /\ Happened(r, Event("update", "failed", "error"))

\* C36: cleanup attempts every registered file: when cleanup() has run, the
\* registered files left under /tmp are exactly those whose deletion threw
C36_CleanupAttemptsAll ==
  [][\A r \in Req :
       \/ pc[r] = "insert" /\ pc'[r] = "ok_update"
       \/ pc[r] \in {"idle", "fail_update"} /\ pc'[r] = "done"
       => Range(tempFiles'[r]) \cap scratch' = unlinkFailed'[r]]_vars

\* C36: the deletion of the input file threw and the output of 360p, which
\* was registered after it and had been written, has been deleted
C36_Witness ==
  \E r \in Req :
    /\ pc[r] = "done"
    /\ unlinkFailed[r] = {TempInputFile(data[r].videoId)}
    /\ Happened(r, Event("transcode", "360p", "ok"))
    /\ TempOutputFile(data[r].videoId, "360p") \notin scratch

====
